---- MODULE Spec2Model ----
(***************************************************************************)
(* Model of the face-recall application's renderer modules:                *)
(*   modules/database.js  (the NeDB-backed person store),                  *)
(*   modules/people.js    (enrollment, edit, delete, export, import),      *)
(*   modules/recognition.js (single-flight recognition workflow).          *)
(* Every async handler is split at its awaits: the synchronous prefix is   *)
(* one action, and each awaited store / detector call is one action that   *)
(* performs the call and runs the continuation up to the next await.       *)
(***************************************************************************)
EXTENDS Integers, Sequences, FiniteSets, TLC

\* ------------------------------------------------------------------ bounds
MaxNewIds == 2     \* identifiers the store hands out in one behaviour
MaxInFlight == 2   \* async handler invocations pending at the same time
MaxEvents == 3     \* user and timer events in one behaviour
MaxClock == 1      \* distinct readings of the wall clock

\* ------------------------------------------------------------- value model
\* A Date object, its JSON (ISO string) form, and null.
NoDate == <<"null", 0>>
DateAt(t) == <<"Date", t>>
IsoAt(t) == <<"String", t>>

\* A missing faceDescriptor (undefined / absent key).
NoDescriptor == <<>>

\* Photos on disk and the face the detector finds in each (descriptor
\* coordinates in tenths; NoDescriptor = no face detected).
Photos == {"p0", "p1", "p2"}
FaceOf == [p \in Photos |-> CASE p = "p0" -> NoDescriptor
                              [] p = "p1" -> <<0, 0>>
                              [] p = "p2" -> <<0, 6>>]

\* What the file dialog can return (main.js select-photos).
Selections == { <<>>, <<"p0">>, <<"p1">>, <<"p0", "p2">>, <<"p1", "p0">> }

\* Descriptors detectAllFaces can yield for a camera frame; <<>> = none.
Frames == { NoDescriptor, <<0, 0>>, <<3, 4>>, <<6, 8>> }

\* Slider positions of #confidence-threshold, in tenths.
ThresholdValues == {5, 6}

\* Raw contents of the add-person form (sequences of characters).
FormInputs ==
  { [name |-> <<" ">>,      relationship |-> <<"k">>, notes |-> <<>>],
    [name |-> <<"a">>,      relationship |-> <<"k">>, notes |-> <<"n", " ">>],
    [name |-> <<" ", "b">>, relationship |-> <<>>,    notes |-> <<"n">>] }

NoPerson == [id |-> 0, name |-> <<>>, relationship |-> <<>>, notes |-> <<>>,
             faceDescriptor |-> NoDescriptor, images |-> <<>>,
             createdAt |-> NoDate, lastRecognized |-> NoDate]

\* ----------------------------------------------------------------- helpers
RECURSIVE TrimLeft(_)
TrimLeft(s) == IF s # <<>> /\ Head(s) = " " THEN TrimLeft(Tail(s)) ELSE s

RECURSIVE TrimRight(_)
TrimRight(s) ==
  IF s # <<>> /\ s[Len(s)] = " " THEN TrimRight(SubSeq(s, 1, Len(s) - 1)) ELSE s

\* String.prototype.trim
Trim(s) == TrimRight(TrimLeft(s))

\* ui.getPersonFormData
getPersonFormData(raw) ==
  [name |-> Trim(raw.name), relationship |-> Trim(raw.relationship),
   notes |-> Trim(raw.notes)]

CharCode == [c \in {" ", "a", "b", "k", "n"} |->
               CASE c = " " -> 32 [] c = "a" -> 97 [] c = "b" -> 98
                 [] c = "k" -> 107 [] c = "n" -> 110]

\* JavaScript string comparison a < b.
RECURSIVE StrLess(_, _)
StrLess(a, b) ==
  IF b = <<>> THEN FALSE
  ELSE IF a = <<>> THEN TRUE
  ELSE IF Head(a) # Head(b) THEN CharCode[Head(a)] < CharCode[Head(b)]
  ELSE StrLess(Tail(a), Tail(b))

Ids(people) == { people[i].id : i \in DOMAIN people }

RECURSIVE SeqFilter(_, _)
SeqFilter(s, keep) ==
  IF s = <<>> THEN <<>>
  ELSE IF Head(s).id \in keep THEN <<Head(s)>> \o SeqFilter(Tail(s), keep)
  ELSE SeqFilter(Tail(s), keep)

\* Array.prototype.findIndex(p => p._id === id); 0 stands for -1.
FindIndex(people, id) ==
  IF \E i \in DOMAIN people : people[i].id = id
  THEN CHOOSE i \in DOMAIN people :
         people[i].id = id /\ \A j \in 1..(i - 1) : people[j].id # id
  ELSE 0

\* --------------------------------------------------------------- JSON
\* Date.prototype.toJSON: a Date is written as its ISO string.
ToJSON(d) == IF d[1] = "Date" THEN IsoAt(d[2]) ELSE d

\* JSON.stringify of one person followed by JSON.parse: strings stay strings.
JsonPerson(p) ==
  [p EXCEPT !.createdAt = ToJSON(p.createdAt),
            !.lastRecognized = ToJSON(p.lastRecognized)]

JsonRoundTrip(people) == [i \in DOMAIN people |-> JsonPerson(people[i])]

\* ------------------------------------------------------------ the store
\* An insert that keeps handing out the first identifier.
DbInsertSameId(db, doc, newId) == db \cup { [doc EXCEPT !.id = 1] }

\* db.insert: the document gets a fresh _id.
DbInsert(db, doc, newId) == db \cup { [doc EXCEPT !.id = newId] }

DbRemove(db, id) == { r \in db : r.id # id }

\* db.update({_id: id}, updates) without $set: the document is replaced.
DbReplacePerson(db, id, u) ==
  { IF r.id = id THEN [u EXCEPT !.id = id] ELSE r : r \in db }

\* db.update({_id: id}, {$set: updates}) for the fields savePerson sets.
DbSetPerson(db, id, u) ==
  { IF r.id = id
    THEN [r EXCEPT !.name = u.name, !.relationship = u.relationship,
                   !.notes = u.notes, !.images = u.images,
                   !.faceDescriptor = u.faceDescriptor]
    ELSE r : r \in db }

\* db.update({_id: id}, {$set: {lastRecognized: new Date()}})
DbSetLastRecognized(db, id, t) ==
  { IF r.id = id THEN [r EXCEPT !.lastRecognized = DateAt(t)] ELSE r : r \in db }

\* database.getPersonById: the record, or NoPerson for the rejection.
getPersonById(db, id) ==
  IF \E r \in db : r.id = id THEN CHOOSE r \in db : r.id = id ELSE NoPerson

\* database.getAllPeople: db.find({}).sort({name: 1}); equal names keep
\* the order of the _id index.
Before(r, s) ==
  \/ StrLess(r.name, s.name)
  \/ (r.name = s.name /\ r.id < s.id)

RECURSIVE SortByName(_)
SortByName(db) ==
  IF db = {} THEN <<>>
  ELSE LET first == CHOOSE r \in db : \A s \in db \ {r} : Before(r, s)
       IN <<first>> \o SortByName(db \ {first})

getAllPeople(db) == SortByName(db)

\* -------------------------------------------------------------- matcher
\* Squared faceapi.euclideanDistance of two descriptors of equal length.
RECURSIVE euclideanDistanceSq(_, _)
euclideanDistanceSq(a, b) ==
  IF a = <<>> THEN 0
  ELSE (Head(a) - Head(b)) * (Head(a) - Head(b))
         + euclideanDistanceSq(Tail(a), Tail(b))

\* new FaceMatcher(...) throws when it is given no labeled descriptors, and
\* euclideanDistance throws when the two arrays differ in length.
MatcherThrows(people, probe) ==
  \/ Len(people) = 0
  \/ \E i \in DOMAIN people : Len(people[i].faceDescriptor) # Len(probe)

DistanceSqTo(people, probe, i) ==
  euclideanDistanceSq(probe, people[i].faceDescriptor)

\* FaceMatcher.matchDescriptor: reduce((best, curr) =>
\*   best.distance < curr.distance ? best : curr) over the labeled descriptors.
RECURSIVE matchDescriptor(_, _, _, _)
matchDescriptor(people, probe, best, i) ==
  IF i > Len(people) THEN best
  ELSE matchDescriptor(people, probe,
         IF DistanceSqTo(people, probe, best) < DistanceSqTo(people, probe, i)
         THEN best ELSE i,
         i + 1)

\* An acceptance test that lets the threshold itself through.
WithinThresholdInclusive(distSq, threshold) == distSq <= threshold * threshold

\* The acceptance test of FaceMatcher.findBestMatch, on squared distances:
\* bestMatch.distance < distanceThreshold.
WithinThreshold(distSq, threshold) == distSq < threshold * threshold

\* FaceMatcher.findBestMatch over the gallery built from people (labels are
\* the _id values); 0 stands for the label 'unknown'.
findBestMatch(people, probe, threshold) ==
  LET b == matchDescriptor(people, probe, 1, 2)
  IN IF WithinThreshold(DistanceSqTo(people, probe, b), threshold)
     THEN people[b].id ELSE 0

\* ------------------------------------------------------------------ state
VARIABLES
  store,             \* database.js: the documents of people.db
  nextId,            \* the next _id NeDB assigns
  firstId,           \* the first _id assigned in this session
  knownPeople,       \* people.js: in-memory list, source of the gallery
  selectedPhotos,    \* people.js: paths of the current selection
  faceDescriptors,   \* people.js: {path, descriptor} of the valid photos
  editingPersonId,   \* people.js: 0 stands for null
  faceapi,           \* recognition.js: face-api.js has been required
  modelsLoaded,      \* recognition.js
  recognitionActive, \* recognition.js: the single-flight flag
  display,           \* ui.js: what the recognition panel shows
  currentSettings,   \* settings: confidenceThreshold
  exportFile,        \* the backup file written by the last exportData
  procs,             \* handler invocations suspended at an await
  now,               \* the wall clock
  events,            \* user and timer events handled so far
  removed,           \* ids for which deletePerson has returned true
  trip,              \* progress of an export followed by its import
  picked,            \* the paths the file dialog returned last
  initialized,       \* database.js: init has opened people.db
  isCameraActive,    \* camera.js
  isTestMode,        \* camera.js
  cameraStream,      \* camera.js: the stream held, 0 stands for null
  tracks,            \* every stream getUserMedia has granted: "live" / "ended"
  edited,            \* the stored record editPerson was last called for
  started,           \* the modules whose init has run
  activeTab,         \* the tab panel that is shown
  last               \* the handler step taken last and its outcome

vars == <<store, nextId, firstId, knownPeople, selectedPhotos, faceDescriptors,
          editingPersonId, faceapi, modelsLoaded, recognitionActive, display,
          currentSettings, exportFile, procs, now, events, removed, trip,
          picked, initialized, isCameraActive, isTestMode, cameraStream, tracks,
          edited, started, activeTab, last>>

\* The state of camera.js and the tab its controls are on.
cameraVars == <<isCameraActive, isTestMode, cameraStream, tracks, activeTab>>

\* The state of people.js, recognition.js, settings and the store's content.
appVars == <<store, nextId, firstId, knownPeople, selectedPhotos,
             faceDescriptors, editingPersonId, faceapi, modelsLoaded,
             recognitionActive, display, currentSettings, exportFile, now,
             removed, trip, picked, edited, started>>

\* Everything but the observation variable and the clock.
progVars == <<store, nextId, knownPeople, selectedPhotos, faceDescriptors,
              editingPersonId, faceapi, modelsLoaded, recognitionActive,
              display, currentSettings, exportFile, procs>>

\* The modules initApp initializes.
Modules ==
  {"database", "ui", "settings", "people", "camera", "recognition", "app"}

NoTrip == [phase |-> "idle", before |-> <<>>]

NoEdit == [phase |-> "idle", id |-> 0, images |-> <<>>, faceDescriptor |-> <<>>]

\* Bookkeeping of the step just taken: the ids deletePerson has removed, the
\* answer of the last file dialog, the record an edit started from ("editing"
\* from editPerson with no selectPhotos or savePerson call running, "saving"
\* once the form is submitted, dropped when photos are selected), and
\* how far an exportData followed by an importData of that export has got
\* ("exported": nothing has changed the store since; "importing": that file
\* is being imported and no other handler has started; "done").
Observe ==
  /\ removed' = IF last'.op = "deletePerson" /\ last'.res = "true"
                THEN removed \cup {last'.arg[1]} ELSE removed
  /\ picked' = IF last'.op = "selectPhotos" /\ last'.res \in {"empty", "picked"}
               THEN last'.arg ELSE picked
  /\ edited' =
       IF last'.op = "editPerson"
         THEN IF procs = <<>>
              THEN LET r == getPersonById(store, editingPersonId')
                   IN [phase |-> "editing", id |-> r.id, images |-> r.images,
                       faceDescriptor |-> r.faceDescriptor]
              ELSE NoEdit
       ELSE IF last'.op = "selectPhotos" /\ last'.res = "dialog" THEN NoEdit
       ELSE IF last'.op = "savePerson" /\ last'.res = "updating"
               /\ edited.phase = "editing"
         THEN [edited EXCEPT !.phase = "saving"]
       ELSE edited
  /\ trip' =
       IF last'.op = "exportData"
         THEN [phase |-> "exported", before |-> knownPeople]
       ELSE IF trip.phase = "exported"
         THEN IF store' # store THEN NoTrip
              ELSE IF /\ last'.op = "importData" /\ last'.res = "reading"
                      /\ procs = <<>>
                      /\ procs'[1].pc = "read"
                      /\ procs'[1].items = exportFile.items
                   THEN [trip EXCEPT !.phase = "importing"]
              ELSE trip
       ELSE IF trip.phase = "importing"
         THEN IF Len(procs') > 1 \/ last'.op # "importData" THEN
                 IF Len(procs') > 1 \/ store' # store \/ knownPeople' # knownPeople
                 THEN NoTrip ELSE trip
              ELSE IF last'.res = "true" THEN [trip EXCEPT !.phase = "done"]
              ELSE IF last'.res \in {"false", "declined"} THEN NoTrip
              ELSE trip
       ELSE IF trip.phase = "done"
         THEN IF store' # store THEN NoTrip ELSE trip
       ELSE trip

\* A user or timer event is handled.
Handled ==
  /\ events < MaxEvents
  /\ events' = events + 1
  /\ UNCHANGED <<firstId, initialized, started, cameraVars>>
  /\ Observe

\* A suspended handler invocation is resumed.
Resumed ==
  /\ UNCHANGED <<events, firstId, initialized, started, cameraVars>>
  /\ Observe

Proc(kind, pc, id, list, items, doc, flag) ==
  [kind |-> kind, pc |-> pc, id |-> id, list |-> list, items |-> items,
   doc |-> doc, flag |-> flag]

DidWith(op, res, arg) == [op |-> op, res |-> res, arg |-> arg]

Did(op, res) == DidWith(op, res, <<>>)

NoFile == [written |-> FALSE, isArray |-> FALSE, items |-> <<>>]

\* A file that is valid JSON but not an array.
ObjectFile == [written |-> TRUE, isArray |-> FALSE, items |-> <<>>]

\* A hand-written backup whose only entry has no name and no faceDescriptor.
BlankEntryFile ==
  [written |-> TRUE, isArray |-> TRUE,
   items |-> << [NoPerson EXCEPT !.id = 9] >>]

NoDisplay == [shown |-> "none", person |-> 0, message |-> ""]

RemoveAt(s, i) == SubSeq(s, 1, i - 1) \o SubSeq(s, i + 1, Len(s))

InFlight(kind) == { i \in DOMAIN procs : procs[i].kind = kind }

\* Identifiers the suspended invocations will still ask the store for.
RECURSIVE Reserved(_)
Reserved(ps) ==
  IF ps = <<>> THEN 0
  ELSE (CASE Head(ps).kind = "save" /\ Head(ps).pc = "create" -> 1
          [] Head(ps).kind = "import" -> Len(Head(ps).items)
          [] OTHER -> 0) + Reserved(Tail(ps))

CanReserve(n) == (nextId - firstId) + Reserved(procs) + n <= MaxNewIds

\* selectedPhotos is bound to a new array: a pending savePerson keeps the old
\* array object in its document.
RebindSelected(ps) ==
  [j \in DOMAIN ps |->
     IF ps[j].kind = "save" THEN [ps[j] EXCEPT !.flag = FALSE] ELSE ps[j]]

\* selectedPhotos.push(path): visible through every reference to that array.
PushSelected(ps, path) ==
  [j \in DOMAIN ps |->
     IF ps[j].kind = "save" /\ ps[j].flag
     THEN [ps[j] EXCEPT !.doc.images = Append(@, path)] ELSE ps[j]]

\* knownPeople is bound to a new array: a running for-of keeps the old one.
RebindKnown(ps) ==
  [j \in DOMAIN ps |->
     IF ps[j].kind \in {"import", "clear"}
     THEN [ps[j] EXCEPT !.flag = FALSE] ELSE ps[j]]

\* knownPeople.push(person): seen by a for-of still iterating that array.
PushKnown(ps, id) ==
  [j \in DOMAIN ps |->
     IF ps[j].kind \in {"import", "clear"} /\ ps[j].flag
     THEN [ps[j] EXCEPT !.list = Append(@, id)] ELSE ps[j]]

IdList(people) == [i \in DOMAIN people |-> people[i].id]

\* Records saved by earlier sessions, as savePerson writes them.
PersonA ==
  [id |-> 1, name |-> <<"a">>, relationship |-> <<"k">>, notes |-> <<"n">>,
   faceDescriptor |-> <<0, 0>>, images |-> <<"p1">>,
   createdAt |-> DateAt(0), lastRecognized |-> NoDate]

PersonB ==
  [id |-> 2, name |-> <<"b">>, relationship |-> <<>>, notes |-> <<"n">>,
   faceDescriptor |-> <<0, 6>>, images |-> <<"p0", "p2">>,
   createdAt |-> DateAt(0), lastRecognized |-> NoDate]

\* What people.db can hold when the application starts.
PersistedStores == { {}, {PersonA}, {PersonA, PersonB} }

\* The state once initApp has run: database.init, then people.init has
\* loaded knownPeople from the store; recognition.init's timer may already
\* have brought in face-api.js and its models.
Init ==
  /\ store \in PersistedStores
  /\ nextId = Cardinality(store) + 1
  /\ firstId = nextId
  /\ knownPeople = getAllPeople(store)
  /\ selectedPhotos = <<>>
  /\ faceDescriptors = <<>>
  /\ editingPersonId = 0
  /\ faceapi \in BOOLEAN
  /\ modelsLoaded \in {FALSE, faceapi}
  /\ recognitionActive = FALSE
  /\ display = NoDisplay
  /\ currentSettings = [confidenceThreshold |-> 6]
  /\ exportFile = NoFile
  /\ procs = <<>>
  /\ now = 0
  /\ events = 0
  /\ removed = {}
  /\ trip = NoTrip
  /\ picked = <<>>
  /\ edited = NoEdit
  /\ started = Modules
  /\ initialized = TRUE
  /\ isCameraActive = FALSE
  /\ isTestMode = FALSE
  /\ cameraStream = 0
  /\ tracks = <<>>
  /\ activeTab = "recognize"
  /\ last = Did("init", "ok")

\* ------------------------------------------------ people.js: enrollment
\* selectPhotos up to `await ipcRenderer.invoke('select-photos')`.
selectPhotos ==
  /\ Len(procs) < MaxInFlight
  /\ selectedPhotos' = <<>>
  /\ faceDescriptors' = <<>>
  /\ procs' = Append(RebindSelected(procs),
                     Proc("select", "dialog", 0, <<>>, <<>>, NoPerson, FALSE))
  /\ last' = Did("selectPhotos", "dialog")
  /\ UNCHANGED <<store, nextId, knownPeople, editingPersonId, faceapi,
                 modelsLoaded, recognitionActive, display, currentSettings,
                 exportFile, now>>
  /\ Handled

\* The dialog returns: an empty list ends the call, otherwise the loop pushes
\* the first path and awaits recognition.getFaceDescriptor for it.
selectPhotosChosen(i) ==
  /\ procs[i].kind = "select" /\ procs[i].pc = "dialog"
  /\ \E filePaths \in Selections :
       IF Len(filePaths) = 0
       THEN /\ procs' = RemoveAt(procs, i)
            /\ last' = Did("selectPhotos", "empty")
            /\ UNCHANGED selectedPhotos
       ELSE /\ selectedPhotos' = Append(selectedPhotos, Head(filePaths))
            /\ procs' = [PushSelected(procs, Head(filePaths)) EXCEPT
                           ![i].pc = "photo", ![i].list = filePaths]
            /\ last' = DidWith("selectPhotos", "picked", filePaths)
  /\ UNCHANGED <<store, nextId, knownPeople, faceDescriptors, editingPersonId,
                 faceapi, modelsLoaded, recognitionActive, display,
                 currentSettings, exportFile, now>>
  /\ Resumed

\* recognition.getFaceDescriptor: what detectSingleFace yields for the image
\* once loadFaceRecognitionModels has (or has not) made the models available.
getFaceDescriptor(imagePath, loaded) ==
  IF loaded /\ FaceOf[imagePath] # NoDescriptor
  THEN [valid |-> TRUE, descriptor |-> FaceOf[imagePath]]
  ELSE [valid |-> FALSE, descriptor |-> NoDescriptor]

\* getFaceDescriptor resolves for the photo at the head of the list; the loop
\* records a valid descriptor and goes on to the next path or returns.
selectPhotosProcessed(i) ==
  /\ procs[i].kind = "select" /\ procs[i].pc = "photo"
  /\ LET filePath == Head(procs[i].list)
         rest == Tail(procs[i].list)
     IN \E loaded \in (IF modelsLoaded THEN {TRUE}
                       ELSE IF faceapi THEN BOOLEAN ELSE {FALSE}) :
          LET result == getFaceDescriptor(filePath, loaded)
          IN /\ modelsLoaded' = (modelsLoaded \/ loaded)
             /\ faceDescriptors' =
                  IF result.valid
                  THEN Append(faceDescriptors,
                              [path |-> filePath, descriptor |-> result.descriptor])
                  ELSE faceDescriptors
             /\ IF rest = <<>>
                THEN /\ procs' = RemoveAt(procs, i)
                     /\ last' = Did("selectPhotos", "done")
                     /\ UNCHANGED selectedPhotos
                ELSE /\ selectedPhotos' = Append(selectedPhotos, Head(rest))
                     /\ procs' = [PushSelected(procs, Head(rest)) EXCEPT
                                    ![i].list = rest]
                     /\ last' = Did("selectPhotos", "processing")
  /\ UNCHANGED <<store, nextId, knownPeople, editingPersonId, faceapi,
                 recognitionActive, display, currentSettings, exportFile, now>>
  /\ Resumed

\* savePerson's two validation tests.
NameMissing(personData) == Trim(personData.name) = <<>>

\* The descriptor test applied to new people only.
NoValidDescriptorUnlessEditing(descriptors) ==
  Len(descriptors) = 0 /\ editingPersonId = 0

NoValidDescriptor(descriptors) == Len(descriptors) = 0

\* The object savePerson sends to db.updatePerson.
updatedPerson(personData) ==
  [NoPerson EXCEPT
     !.name = personData.name,
     !.relationship = personData.relationship,
     !.notes = personData.notes,
     !.images = selectedPhotos,
     !.faceDescriptor = IF Len(faceDescriptors) > 0
                        THEN faceDescriptors[1].descriptor ELSE NoDescriptor]

\* A new person whose relationship and notes are taken from each other.
newPersonSwapped(personData) ==
  [NoPerson EXCEPT
     !.name = personData.name,
     !.relationship = personData.notes,
     !.notes = personData.relationship,
     !.faceDescriptor = faceDescriptors[1].descriptor,
     !.images = selectedPhotos,
     !.createdAt = DateAt(now),
     !.lastRecognized = NoDate]

\* The object savePerson sends to db.addPerson.
newPerson(personData) ==
  [NoPerson EXCEPT
     !.name = personData.name,
     !.relationship = personData.relationship,
     !.notes = personData.notes,
     !.faceDescriptor = faceDescriptors[1].descriptor,
     !.images = selectedPhotos,
     !.createdAt = DateAt(now),
     !.lastRecognized = NoDate]

\* The form's submit handler: getPersonFormData, then savePerson up to its
\* await of db.updatePerson / db.addPerson.
savePerson ==
  /\ \E raw \in FormInputs :
       LET personData == getPersonFormData(raw)
       IN IF NameMissing(personData)
          THEN /\ last' = DidWith("savePerson", "no-name", <<personData>>)
               /\ UNCHANGED procs
          ELSE IF NoValidDescriptor(faceDescriptors)
          THEN /\ last' = DidWith("savePerson", "no-face", <<personData>>)
               /\ UNCHANGED procs
          ELSE IF editingPersonId # 0
          THEN /\ Len(procs) < MaxInFlight
               /\ procs' = Append(procs,
                    Proc("save", "edit", editingPersonId, <<>>, <<>>,
                         updatedPerson(personData), TRUE))
               /\ last' = DidWith("savePerson", "updating", <<personData>>)
          ELSE /\ Len(procs) < MaxInFlight
               /\ CanReserve(1)
               /\ procs' = Append(procs,
                    Proc("save", "create", 0, <<>>, <<>>,
                         newPerson(personData), TRUE))
               /\ last' = DidWith("savePerson", "adding", <<personData>>)
  /\ UNCHANGED <<store, nextId, knownPeople, selectedPhotos, faceDescriptors,
                 editingPersonId, faceapi, modelsLoaded, recognitionActive,
                 display, currentSettings, exportFile, now>>
  /\ Handled

\* {...knownPeople[index], ...updatedPerson}
MergeUpdated(person, u) ==
  [person EXCEPT !.name = u.name, !.relationship = u.relationship,
                 !.notes = u.notes, !.images = u.images,
                 !.faceDescriptor = u.faceDescriptor]

\* The store answers savePerson: the list and the form state are updated, or
\* the catch block reports the failure.
savePersonStored(i) ==
  /\ procs[i].kind = "save"
  /\ \E ok \in BOOLEAN :
       IF ~ok
       THEN /\ procs' = RemoveAt(procs, i)
            /\ last' = Did("savePerson", "false")
            /\ UNCHANGED <<store, nextId, knownPeople, selectedPhotos,
                           faceDescriptors, editingPersonId>>
       ELSE IF procs[i].pc = "edit"
       THEN LET index == FindIndex(knownPeople, editingPersonId)
            IN /\ store' = DbSetPerson(store, procs[i].id, procs[i].doc)
               /\ knownPeople' =
                    IF index # 0
                    THEN [knownPeople EXCEPT
                            ![index] = MergeUpdated(@, procs[i].doc)]
                    ELSE knownPeople
               /\ procs' = RebindSelected(RemoveAt(procs, i))
               /\ last' = DidWith("savePerson", "updated", <<procs[i].id>>)
               /\ UNCHANGED nextId
       ELSE /\ store' = DbInsert(store, procs[i].doc, nextId)
            /\ nextId' = nextId + 1
            /\ knownPeople' = Append(knownPeople, [procs[i].doc EXCEPT !.id = nextId])
            /\ procs' = RebindSelected(PushKnown(RemoveAt(procs, i), nextId))
            /\ last' = Did("savePerson", "added")
  /\ IF last'.res \in {"updated", "added"}
     THEN selectedPhotos' = <<>> /\ faceDescriptors' = <<>> /\ editingPersonId' = 0
     ELSE TRUE
  /\ UNCHANGED <<faceapi, modelsLoaded, recognitionActive, display,
                 currentSettings, exportFile, now>>
  /\ Resumed

\* The 'edit-person' event for a person shown in the list.
editPerson ==
  /\ \E index \in DOMAIN knownPeople :
       LET person == knownPeople[index]
       IN /\ editingPersonId' = person.id
          /\ selectedPhotos' = person.images
          /\ faceDescriptors' =
               IF person.faceDescriptor # NoDescriptor
               THEN << [path |-> IF person.images # <<>>
                                 THEN Head(person.images) ELSE "undefined",
                        descriptor |-> person.faceDescriptor] >>
               ELSE faceDescriptors
  /\ procs' = RebindSelected(procs)
  /\ last' = Did("editPerson", "ok")
  /\ UNCHANGED <<store, nextId, knownPeople, faceapi, modelsLoaded,
                 recognitionActive, display, currentSettings, exportFile, now>>
  /\ Handled

\* ------------------------------------------- people.js: delete / clear
\* A confirm() whose answer is not looked at.
ConfirmedAlways(answer) == TRUE

\* What confirm() lets through.
Confirmed(answer) == answer

\* The 'delete-person' event for a person shown in the list: confirm(), then
\* deletePerson up to `await db.deletePerson`.
deletePerson ==
  /\ \E index \in DOMAIN knownPeople, answer \in BOOLEAN :
       IF Confirmed(answer)
       THEN /\ Len(procs) < MaxInFlight
            /\ procs' = Append(procs,
                 Proc("delete", "remove", knownPeople[index].id, <<>>, <<>>,
                      NoPerson, FALSE))
            /\ last' = DidWith("deletePerson", "confirmed", <<answer>>)
       ELSE /\ last' = DidWith("deletePerson", "declined", <<answer>>)
            /\ UNCHANGED procs
  /\ UNCHANGED <<store, nextId, knownPeople, selectedPhotos, faceDescriptors,
                 editingPersonId, faceapi, modelsLoaded, recognitionActive,
                 display, currentSettings, exportFile, now>>
  /\ Handled

\* The list left as it is.
WithoutPersonKept(people, id) == people

\* knownPeople.filter(p => p._id !== person._id)
WithoutPerson(people, id) == SeqFilter(people, Ids(people) \ {id})

\* The store answers deletePerson.
deletePersonRemoved(i) ==
  /\ procs[i].kind = "delete"
  /\ \E ok \in BOOLEAN :
       IF ok
       THEN /\ store' = DbRemove(store, procs[i].id)
            /\ knownPeople' = WithoutPerson(knownPeople, procs[i].id)
            /\ procs' = RebindKnown(RemoveAt(procs, i))
            /\ last' = DidWith("deletePerson", "true", <<procs[i].id>>)
       ELSE /\ procs' = RemoveAt(procs, i)
            /\ last' = Did("deletePerson", "false")
            /\ UNCHANGED <<store, knownPeople>>
  /\ UNCHANGED <<nextId, selectedPhotos, faceDescriptors, editingPersonId,
                 faceapi, modelsLoaded, recognitionActive, display,
                 currentSettings, exportFile, now>>
  /\ Resumed

\* clearData: two confirm() calls, then the for-of over knownPeople up to its
\* first `await db.deletePerson`.
clearData ==
  /\ \E confirmClear \in BOOLEAN, confirmAgain \in BOOLEAN :
       IF Confirmed(confirmClear) /\ Confirmed(confirmAgain)
       THEN IF knownPeople = <<>>
            THEN /\ knownPeople' = <<>>
                 /\ procs' = RebindKnown(procs)
                 /\ last' = DidWith("clearData", "cleared",
                                    <<confirmClear, confirmAgain>>)
            ELSE /\ Len(procs) < MaxInFlight
                 /\ procs' = Append(procs,
                      Proc("clear", "delete", 0, IdList(knownPeople), <<>>,
                           NoPerson, TRUE))
                 /\ last' = DidWith("clearData", "confirmed",
                                    <<confirmClear, confirmAgain>>)
                 /\ UNCHANGED knownPeople
       ELSE /\ last' = DidWith("clearData", "declined",
                               <<confirmClear, confirmAgain>>)
            /\ UNCHANGED <<knownPeople, procs>>
  /\ UNCHANGED <<store, nextId, selectedPhotos, faceDescriptors,
                 editingPersonId, faceapi, modelsLoaded, recognitionActive,
                 display, currentSettings, exportFile, now>>
  /\ Handled

\* The store answers one db.deletePerson of clearData's loop.
clearDataRemoved(i) ==
  /\ procs[i].kind = "clear"
  /\ \E ok \in BOOLEAN :
       IF ~ok
       THEN /\ procs' = RemoveAt(procs, i)
            /\ last' = Did("clearData", "false")
            /\ UNCHANGED <<store, knownPeople>>
       ELSE /\ store' = DbRemove(store, Head(procs[i].list))
            /\ IF Tail(procs[i].list) = <<>>
               THEN /\ knownPeople' = <<>>
                    /\ procs' = RebindKnown(RemoveAt(procs, i))
                    /\ last' = Did("clearData", "true")
               ELSE /\ procs' = [procs EXCEPT ![i].list = Tail(@)]
                    /\ last' = Did("clearData", "deleting")
                    /\ UNCHANGED knownPeople
  /\ UNCHANGED <<nextId, selectedPhotos, faceDescriptors, editingPersonId,
                 faceapi, modelsLoaded, recognitionActive, display,
                 currentSettings, exportFile, now>>
  /\ Resumed

\* ------------------------------------------- people.js: export / import
\* exportData: JSON.stringify(knownPeople) goes to the download.
exportData ==
  /\ exportFile' = [written |-> TRUE, isArray |-> TRUE,
                    items |-> JsonRoundTrip(knownPeople)]
  /\ last' = Did("exportData", "true")
  /\ UNCHANGED <<store, nextId, knownPeople, selectedPhotos, faceDescriptors,
                 editingPersonId, faceapi, modelsLoaded, recognitionActive,
                 display, currentSettings, procs, now>>
  /\ Handled

\* The .json files the user can pick in the file chooser.
ImportableFiles ==
  {ObjectFile, BlankEntryFile} \cup (IF exportFile.written THEN {exportFile} ELSE {})

\* importData and the chooser's onchange: a cancelled chooser ends the call,
\* otherwise reader.readAsText(file) is started.
importData ==
  /\ \E chosen \in BOOLEAN :
       IF ~chosen
       THEN /\ last' = Did("importData", "no-file")
            /\ UNCHANGED procs
       ELSE \E file \in ImportableFiles :
              /\ Len(procs) < MaxInFlight
              /\ CanReserve(Len(file.items))
              /\ procs' = Append(procs,
                   Proc("import", IF file.isArray THEN "read" ELSE "read-other",
                        0, <<>>, file.items, NoPerson, FALSE))
              /\ last' = Did("importData", "reading")
  /\ UNCHANGED <<store, nextId, knownPeople, selectedPhotos, faceDescriptors,
                 editingPersonId, faceapi, modelsLoaded, recognitionActive,
                 display, currentSettings, exportFile, now>>
  /\ Handled

\* The await importData's loops are suspended at, given what is left to do.
ImportPc(ids, items) ==
  IF ids # <<>> THEN "delete" ELSE IF items # <<>> THEN "add" ELSE "reload"

\* reader.onload: JSON.parse, the Array.isArray test, confirm(), and the
\* delete loop up to its first await.
importDataLoaded(i) ==
  /\ procs[i].kind = "import" /\ procs[i].pc \in {"read", "read-other"}
  /\ IF procs[i].pc = "read-other"
     THEN /\ procs' = RemoveAt(procs, i)
          /\ last' = Did("importData", "invalid-format")
     ELSE \E answer \in BOOLEAN :
            IF Confirmed(answer)
            THEN /\ procs' = [procs EXCEPT
                      ![i].pc = ImportPc(IdList(knownPeople), procs[i].items),
                      ![i].list = IdList(knownPeople),
                      ![i].flag = knownPeople # <<>>]
                 /\ last' = DidWith("importData", "confirmed", <<answer>>)
            ELSE /\ procs' = RemoveAt(procs, i)
                 /\ last' = DidWith("importData", "declined", <<answer>>)
  /\ UNCHANGED <<store, nextId, knownPeople, selectedPhotos, faceDescriptors,
                 editingPersonId, faceapi, modelsLoaded, recognitionActive,
                 display, currentSettings, exportFile, now>>
  /\ Resumed

\* The store answers one db.deletePerson of importData's first loop.
importDataRemoved(i) ==
  /\ procs[i].kind = "import" /\ procs[i].pc = "delete"
  /\ \E ok \in BOOLEAN :
       IF ~ok
       THEN /\ procs' = RemoveAt(procs, i)
            /\ last' = Did("importData", "false")
            /\ UNCHANGED store
       ELSE /\ store' = DbRemove(store, Head(procs[i].list))
            /\ procs' = [procs EXCEPT
                 ![i].list = Tail(@),
                 ![i].pc = ImportPc(Tail(procs[i].list), procs[i].items),
                 ![i].flag = procs[i].flag /\ Tail(procs[i].list) # <<>>]
            /\ last' = Did("importData", "deleted")
  /\ UNCHANGED <<nextId, knownPeople, selectedPhotos, faceDescriptors,
                 editingPersonId, faceapi, modelsLoaded, recognitionActive,
                 display, currentSettings, exportFile, now>>
  /\ Resumed

\* The store answers one db.addPerson of importData's second loop; the
\* entry's _id has been dropped and the store assigns a new one.
importDataAdded(i) ==
  /\ procs[i].kind = "import" /\ procs[i].pc = "add"
  /\ \E ok \in BOOLEAN :
       IF ~ok
       THEN /\ procs' = RemoveAt(procs, i)
            /\ last' = Did("importData", "false")
            /\ UNCHANGED <<store, nextId>>
       ELSE /\ store' = DbInsert(store, Head(procs[i].items), nextId)
            /\ nextId' = nextId + 1
            /\ procs' = [procs EXCEPT
                 ![i].items = Tail(@),
                 ![i].pc = ImportPc(<<>>, Tail(procs[i].items))]
            /\ last' = Did("importData", "added")
  /\ UNCHANGED <<knownPeople, selectedPhotos, faceDescriptors,
                 editingPersonId, faceapi, modelsLoaded, recognitionActive,
                 display, currentSettings, exportFile, now>>
  /\ Resumed

\* loadSavedPeople: knownPeople is what db.getAllPeople returns, or empty
\* when it rejects.
loadSavedPeople(ok) == IF ok THEN getAllPeople(store) ELSE <<>>

\* The store answers the getAllPeople of importData's final loadSavedPeople.
importDataReloaded(i) ==
  /\ procs[i].kind = "import" /\ procs[i].pc = "reload"
  /\ \E ok \in BOOLEAN : knownPeople' = loadSavedPeople(ok)
  /\ procs' = RebindKnown(RemoveAt(procs, i))
  /\ last' = Did("importData", "true")
  /\ UNCHANGED <<store, nextId, selectedPhotos, faceDescriptors,
                 editingPersonId, faceapi, modelsLoaded, recognitionActive,
                 display, currentSettings, exportFile, now>>
  /\ Resumed

\* ----------------------------------------------------- recognition.js
\* init's timer: require('face-api.js'), then loadFaceRecognitionModels.
loadFaceApi ==
  /\ ~faceapi
  /\ faceapi' = TRUE
  /\ last' = Did("init", "face-api")
  /\ UNCHANGED <<store, nextId, knownPeople, selectedPhotos, faceDescriptors,
                 editingPersonId, modelsLoaded, recognitionActive, display,
                 currentSettings, exportFile, procs, now>>
  /\ Handled

\* loadFaceRecognitionModels: the four nets have loaded.
loadFaceRecognitionModels ==
  /\ faceapi /\ ~modelsLoaded
  /\ modelsLoaded' = TRUE
  /\ last' = Did("loadFaceRecognitionModels", "true")
  /\ UNCHANGED <<store, nextId, knownPeople, selectedPhotos, faceDescriptors,
                 editingPersonId, faceapi, recognitionActive, display,
                 currentSettings, exportFile, procs, now>>
  /\ Handled

\* The guard without its test of the flag.
CannotRecognizeModelsOnly == ~faceapi \/ ~modelsLoaded

\* The guard at the top of recognizeFace.
CannotRecognize == recognitionActive \/ ~faceapi \/ ~modelsLoaded

\* recognizeFace(imageData) up to `await new Promise(... canvas.toBlob ...)`.
recognizeFace ==
  /\ IF CannotRecognize
     THEN /\ last' = Did("recognizeFace", "ignored")
          /\ UNCHANGED <<recognitionActive, display, procs>>
     ELSE /\ Len(procs) < MaxInFlight
          /\ recognitionActive' = TRUE
          /\ display' = [NoDisplay EXCEPT !.shown = "loading"]
          /\ procs' = Append(procs,
               Proc("recognize", "blob", 0, <<>>, <<>>, NoPerson, FALSE))
          /\ last' = Did("recognizeFace", "started")
  /\ UNCHANGED <<store, nextId, knownPeople, selectedPhotos, faceDescriptors,
                 editingPersonId, faceapi, modelsLoaded, currentSettings,
                 exportFile, now>>
  /\ Handled

\* canvas.toBlob calls back; faceapi.bufferToImage(blob) is awaited.
recognizeFaceBlob(i) ==
  /\ procs[i].kind = "recognize" /\ procs[i].pc = "blob"
  /\ procs' = [procs EXCEPT ![i].pc = "image"]
  /\ last' = Did("recognizeFace", "blob")
  /\ UNCHANGED <<store, nextId, knownPeople, selectedPhotos, faceDescriptors,
                 editingPersonId, faceapi, modelsLoaded, recognitionActive,
                 display, currentSettings, exportFile, now>>
  /\ Resumed

\* The flag if recognizeFace had no finally block.
FlagWithoutFinally == recognitionActive

\* The flag after the finally block of recognizeFace.
FlagAfterFinally == FALSE

\* 'Error analyzing face: ' + error.message, for the error each step of
\* recognizeFace can raise.
ErrorText(cause) ==
  CASE cause = "bufferToImage" -> "Error analyzing face: bufferToImage failed"
    [] cause = "detectAllFaces" -> "Error analyzing face: detectAllFaces failed"
    [] cause = "FaceMatcher" -> "Error analyzing face: FaceMatcher failed"

\* recognizeFace without its catch block: the error leaves with the promise.
CatchMissing(i, cause) ==
  /\ recognitionActive' = FlagAfterFinally
  /\ procs' = RemoveAt(procs, i)
  /\ last' = DidWith("recognizeFace", "rejected", <<cause>>)
  /\ UNCHANGED display

\* The catch block followed by the finally block.
CatchAndFinally(i, cause) ==
  /\ display' = [shown |-> "not-recognized", person |-> 0,
                 message |-> ErrorText(cause)]
  /\ recognitionActive' = FlagAfterFinally
  /\ procs' = RemoveAt(procs, i)
  /\ last' = DidWith("recognizeFace", "error", <<cause>>)

\* bufferToImage settles; detectAllFaces(img)... is awaited, or the catch
\* block runs.
recognizeFaceImage(i) ==
  /\ procs[i].kind = "recognize" /\ procs[i].pc = "image"
  /\ \E threw \in BOOLEAN :
       IF threw
       THEN CatchAndFinally(i, "bufferToImage")
       ELSE /\ procs' = [procs EXCEPT ![i].pc = "detect"]
            /\ last' = Did("recognizeFace", "image")
            /\ UNCHANGED <<recognitionActive, display>>
  /\ UNCHANGED <<store, nextId, knownPeople, selectedPhotos, faceDescriptors,
                 editingPersonId, faceapi, modelsLoaded, currentSettings,
                 exportFile, now>>
  /\ Resumed

\* A panel that is left as it is until the store has answered.
RecognizedResultDeferred(label) == display

\* The result object of a match, as ui.displayRecognitionResult shows it.
RecognizedResult(label) ==
  [shown |-> "recognized", person |-> label, message |-> ""]

\* A test of the gallery that never finds it empty.
GalleryEmptyNever(people) == FALSE

\* knownPeople.length === 0
GalleryEmpty(people) == Len(people) = 0

\* A no-face exit that leaves the loading indicator on the panel.
NoDetectionKeepsLoading == [shown |-> "loading", person |-> 0, message |-> ""]

\* The result object recognizeFace hands to ui.displayRecognitionResult when
\* detections.length === 0.
NoDetectionResult == [shown |-> "not-recognized", person |-> 0, message |-> ""]

\* The detections arrive (descriptor of detections[0], or none) and the rest
\* of recognizeFace runs: gallery, FaceMatcher, result, finally.  The await
\* of getKnownPeople() is on a plain array: it resumes in the same microtask
\* checkpoint, before any other handler's callback can run.
recognizeFaceDetected(i) ==
  /\ procs[i].kind = "recognize" /\ procs[i].pc = "detect"
  /\ \E threw \in BOOLEAN, detection \in Frames :
       IF threw
       THEN CatchAndFinally(i, "detectAllFaces")
       ELSE IF detection = NoDescriptor
       THEN /\ display' = NoDetectionResult
            /\ recognitionActive' = FlagAfterFinally
            /\ procs' = RemoveAt(procs, i)
            /\ last' = DidWith("recognizeFace", "no-face", detection)
       ELSE IF GalleryEmpty(knownPeople)
       THEN /\ display' = [shown |-> "not-recognized", person |-> 0,
                           message |-> "No people saved to recognize"]
            /\ recognitionActive' = FlagAfterFinally
            /\ procs' = RemoveAt(procs, i)
            /\ last' = DidWith("recognizeFace", "no-people", detection)
       ELSE IF MatcherThrows(knownPeople, detection)
       THEN CatchAndFinally(i, "FaceMatcher")
       ELSE LET label == findBestMatch(knownPeople, detection,
                                       currentSettings.confidenceThreshold)
            IN IF label # 0
               THEN /\ display' = RecognizedResult(label)
                    /\ recognitionActive' = FlagAfterFinally
                    /\ procs' = [procs EXCEPT ![i] =
                         Proc("touch", "update", label, <<>>, <<>>,
                              NoPerson, FALSE)]
                    /\ last' = DidWith("recognizeFace", "match", detection)
               ELSE /\ display' = [shown |-> "not-recognized", person |-> 0,
                                   message |-> "Face not recognized"]
                    /\ recognitionActive' = FlagAfterFinally
                    /\ procs' = RemoveAt(procs, i)
                    /\ last' = DidWith("recognizeFace", "no-match", detection)
  /\ UNCHANGED <<store, nextId, knownPeople, selectedPhotos, faceDescriptors,
                 editingPersonId, faceapi, modelsLoaded, currentSettings,
                 exportFile, now>>
  /\ Resumed

\* people.updateLastRecognized: the store answers db.updateLastRecognized and
\* the entry of the local list gets its own new Date().
updateLastRecognized(i) ==
  /\ procs[i].kind = "touch"
  /\ \E ok \in BOOLEAN :
       IF ok
       THEN LET index == FindIndex(knownPeople, procs[i].id)
            IN /\ store' = DbSetLastRecognized(store, procs[i].id, now)
               /\ knownPeople' =
                    IF index # 0
                    THEN [knownPeople EXCEPT ![index].lastRecognized = DateAt(now)]
                    ELSE knownPeople
               /\ last' = Did("updateLastRecognized", "ok")
       ELSE /\ last' = Did("updateLastRecognized", "failed")
            /\ UNCHANGED <<store, knownPeople>>
  /\ procs' = RemoveAt(procs, i)
  /\ UNCHANGED <<nextId, selectedPhotos, faceDescriptors, editingPersonId,
                 faceapi, modelsLoaded, recognitionActive, display,
                 currentSettings, exportFile, now>>
  /\ Resumed

\* ------------------------------------------------- settings and the clock
\* The 'input' listener of #confidence-threshold.
setConfidenceThreshold ==
  /\ \E value \in ThresholdValues \ {currentSettings.confidenceThreshold} :
       currentSettings' = [currentSettings EXCEPT !.confidenceThreshold = value]
  /\ last' = Did("settings", "threshold")
  /\ UNCHANGED <<store, nextId, knownPeople, selectedPhotos, faceDescriptors,
                 editingPersonId, faceapi, modelsLoaded, recognitionActive,
                 display, exportFile, procs, now>>
  /\ Handled

Tick ==
  /\ now < MaxClock
  /\ now' = now + 1
  /\ last' = Did("clock", "tick")
  /\ UNCHANGED progVars
  /\ Handled

\* ------------------------------------------------------------- camera.js
\* The streams whose tracks have not been stopped.
LiveStreams == { s \in DOMAIN tracks : tracks[s] = "live" }

\* stopCamera: the tracks of the stream held are stopped and the state reset.
stopCamera ==
  /\ tracks' = IF cameraStream # 0
               THEN [tracks EXCEPT ![cameraStream] = "ended"] ELSE tracks
  /\ cameraStream' = 0
  /\ isCameraActive' = FALSE
  /\ isTestMode' = FALSE

\* The data-tab values of the tab buttons.
Tabs == {"recognize", "manage", "settings"}

\* A click on #toggle-camera, a button of the 'recognize' panel: stopCamera
\* when the camera is active, otherwise startCamera up to
\* `await navigator.mediaDevices.enumerateDevices()`.
toggleCamera ==
  /\ activeTab = "recognize"
  /\ events < MaxEvents
  /\ events' = events + 1
  /\ IF isCameraActive
     THEN /\ stopCamera
          /\ UNCHANGED activeTab
          /\ last' = Did("toggleCamera", "stopped")
          /\ UNCHANGED procs
     ELSE /\ Len(procs) < MaxInFlight
          /\ procs' = Append(procs,
               Proc("camera", "enumerate", 0, <<>>, <<>>, NoPerson, FALSE))
          /\ last' = Did("toggleCamera", "starting")
          /\ UNCHANGED cameraVars
  /\ UNCHANGED <<appVars, initialized>>

\* The 'tab-changed' listener: a tab other than 'recognize' stops an active
\* camera.
tabChanged ==
  /\ events < MaxEvents
  /\ events' = events + 1
  /\ \E tabName \in Tabs :
       /\ activeTab' = tabName
       /\ IF tabName # "recognize" /\ isCameraActive
          THEN stopCamera /\ last' = DidWith("tab-changed", "stopped", <<tabName>>)
          ELSE /\ last' = DidWith("tab-changed", "kept", <<tabName>>)
               /\ UNCHANGED <<isCameraActive, isTestMode, cameraStream, tracks>>
  /\ UNCHANGED <<appVars, initialized, procs>>

\* The offer of the test image after a failure: confirm(), then
\* enableTestMode up to the loading of the image.
offerTestMode(i, useFallback, res) ==
  /\ procs' = IF useFallback THEN [procs EXCEPT ![i].pc = "test-image"]
              ELSE RemoveAt(procs, i)
  /\ last' = DidWith("startCamera", res, <<useFallback>>)
  /\ UNCHANGED cameraVars

\* enumerateDevices settles: getUserMedia is awaited when there is a video
\* input; without one, or on an error, the test image is offered.
startCameraEnumerated(i) ==
  /\ procs[i].kind = "camera" /\ procs[i].pc = "enumerate"
  /\ \E outcome \in {"devices", "none", "error"}, useFallback \in BOOLEAN :
       IF outcome = "devices"
       THEN /\ procs' = [procs EXCEPT ![i].pc = "getUserMedia"]
            /\ last' = Did("startCamera", "requesting")
            /\ UNCHANGED cameraVars
       ELSE offerTestMode(i, useFallback,
                          IF outcome = "none" THEN "no-devices" ELSE "error")
  /\ UNCHANGED <<appVars, initialized, events>>

\* getUserMedia settles: the granted stream becomes cameraStream and the
\* camera is active; a refusal goes to the catch block.
startCameraGranted(i) ==
  /\ procs[i].kind = "camera" /\ procs[i].pc = "getUserMedia"
  /\ \E granted \in BOOLEAN, useFallback \in BOOLEAN :
       IF granted
       THEN /\ tracks' = Append(tracks, "live")
            /\ cameraStream' = Len(tracks) + 1
            /\ isCameraActive' = TRUE
            /\ isTestMode' = FALSE
            /\ procs' = RemoveAt(procs, i)
            /\ last' = Did("startCamera", "active")
            /\ UNCHANGED activeTab
       ELSE offerTestMode(i, useFallback, "error")
  /\ UNCHANGED <<appVars, initialized, events>>

\* enableTestMode's image loads (img.onload) or fails to (img.onerror).
testImageLoaded(i) ==
  /\ procs[i].kind = "camera" /\ procs[i].pc = "test-image"
  /\ \E loaded \in BOOLEAN :
       IF loaded
       THEN /\ isCameraActive' = TRUE
            /\ isTestMode' = TRUE
            /\ last' = Did("enableTestMode", "active")
            /\ UNCHANGED <<cameraStream, tracks, activeTab>>
       ELSE /\ last' = Did("enableTestMode", "failed")
            /\ UNCHANGED cameraVars
  /\ procs' = RemoveAt(procs, i)
  /\ UNCHANGED <<appVars, initialized, events>>

\* camera.js on its own: the toggle button, the tab listener and the
\* continuations of startCamera.
CameraInit ==
  /\ Init
  /\ store = {}
  /\ ~faceapi

CameraNext ==
  \/ toggleCamera
  \/ tabChanged
  \/ \E i \in DOMAIN procs : startCameraEnumerated(i)
  \/ \E i \in DOMAIN procs : startCameraGranted(i)
  \/ \E i \in DOMAIN procs : testImageLoaded(i)

CameraSpec == CameraInit /\ [][CameraNext]_vars


\* ----------------------------------------------------------- database.js
\* db.update({_id: id}, {$push: {images: imagePath}})
DbPushImage(db, id, imagePath) ==
  { IF r.id = id THEN [r EXCEPT !.images = Append(@, imagePath)] ELSE r
    : r \in db }

\* The number of documents a query on _id matches.
NumMatched(db, id) == Cardinality({ r \in db : r.id = id })

\* The test that opens every operation: `!initialized || !db`; db is set
\* by the statement before `initialized = true` and by nothing else.
NotInitializedNever == FALSE

NotInitialized == ~initialized

\* The documents and identifiers the callers below pass in.
StoreDocs == { [PersonA EXCEPT !.id = 0], [PersonB EXCEPT !.id = 0] }

StoreIds == 1..3

\* One call of a database.js operation: the rejection of an uninitialized
\* module, the error of the NeDB callback, or the resolved value together
\* with the store the operation leaves.
StoreCall(op, ok, value, after) ==
  /\ events < MaxEvents
  /\ events' = events + 1
  /\ IF NotInitialized
     THEN /\ last' = Did(op, "Database not initialized")
          /\ UNCHANGED <<store, nextId>>
     ELSE IF ~ok
     THEN /\ last' = Did(op, "error")
          /\ UNCHANGED <<store, nextId>>
     ELSE /\ last' = DidWith(op, "resolved", value)
          /\ store' = after
          /\ nextId' = IF op = "addPerson" THEN nextId + 1 ELSE nextId
  /\ UNCHANGED <<firstId, knownPeople, selectedPhotos, faceDescriptors,
                 editingPersonId, faceapi, modelsLoaded, recognitionActive,
                 display, currentSettings, exportFile, procs, now, removed,
                 trip, picked, edited, started, initialized, cameraVars>>

\* database.init: the data directory and the Datastore are created, or the
\* attempt throws and the promise rejects.
dbInit ==
  /\ events < MaxEvents
  /\ events' = events + 1
  /\ \E ok \in BOOLEAN :
       /\ initialized' = (initialized \/ ok)
       /\ last' = Did("init", IF ok THEN "resolved" ELSE "error")
  /\ UNCHANGED <<appVars, procs, cameraVars>>

dbAddPerson ==
  /\ nextId < firstId + MaxNewIds
  /\ \E person \in StoreDocs, ok \in BOOLEAN :
       StoreCall("addPerson", ok, <<[person EXCEPT !.id = nextId]>>,
                 DbInsert(store, person, nextId))

dbGetAllPeople ==
  \E ok \in BOOLEAN :
    StoreCall("getAllPeople", ok, getAllPeople(store), store)

\* A missing document is a rejection of its own.
dbGetPersonById ==
  \E id \in StoreIds :
    \E ok \in {b \in BOOLEAN : b => getPersonById(store, id) # NoPerson} :
      StoreCall("getPersonById", ok, <<getPersonById(store, id)>>, store)

dbUpdatePerson ==
  \E id \in StoreIds, updates \in StoreDocs, ok \in BOOLEAN :
    StoreCall("updatePerson", ok, <<NumMatched(store, id)>>,
              DbSetPerson(store, id, updates))

dbDeletePerson ==
  \E id \in StoreIds, ok \in BOOLEAN :
    StoreCall("deletePerson", ok, <<NumMatched(store, id)>>,
              DbRemove(store, id))

dbUpdateLastRecognized ==
  \E id \in StoreIds, ok \in BOOLEAN :
    StoreCall("updateLastRecognized", ok, <<NumMatched(store, id)>>,
              DbSetLastRecognized(store, id, now))

dbAddImageToPerson ==
  \E id \in StoreIds, imagePath \in {"p0", "p1"}, ok \in BOOLEAN :
    StoreCall("addImageToPerson", ok, <<NumMatched(store, id)>>,
              DbPushImage(store, id, imagePath))

\* The module as required, before database.init has been called, over the
\* people.db files a previous run can have left.
StoreInit ==
  /\ store \in PersistedStores
  /\ nextId = Cardinality(store) + 1
  /\ firstId = nextId
  /\ knownPeople = <<>>
  /\ selectedPhotos = <<>>
  /\ faceDescriptors = <<>>
  /\ editingPersonId = 0
  /\ faceapi = FALSE
  /\ modelsLoaded = FALSE
  /\ recognitionActive = FALSE
  /\ display = NoDisplay
  /\ currentSettings = [confidenceThreshold |-> 6]
  /\ exportFile = NoFile
  /\ procs = <<>>
  /\ now = 0
  /\ events = 0
  /\ removed = {}
  /\ trip = NoTrip
  /\ picked = <<>>
  /\ edited = NoEdit
  /\ started = {}
  /\ initialized = FALSE
  /\ isCameraActive = FALSE
  /\ isTestMode = FALSE
  /\ cameraStream = 0
  /\ tracks = <<>>
  /\ activeTab = "recognize"
  /\ last = Did("require", "ok")

StoreNext ==
  \/ dbInit
  \/ dbAddPerson
  \/ dbGetAllPeople
  \/ dbGetPersonById
  \/ dbUpdatePerson
  \/ dbDeletePerson
  \/ dbUpdateLastRecognized
  \/ dbAddImageToPerson

StoreSpec == StoreInit /\ [][StoreNext]_vars


\* ------------------------------------------------- renderer.js: startup
\* A listener that a module's init registers exists once that init has run.
Connected(module) == module \in started

\* `await databaseModule.init(userDataPath)` lets initApp go on whatever
\* the outcome.
DatabaseReadyAlways(ok) == TRUE

\* `await databaseModule.init(userDataPath)` inside initApp's try block: a
\* rejection goes to the catch block.
DatabaseReady(ok) == ok

\* DOMContentLoaded: initApp up to `await ipcRenderer.invoke(
\* 'get-user-data-path')`.
initApp ==
  /\ last.op = "load"
  /\ procs' = Append(procs, Proc("initApp", "path", 0, <<>>, <<>>, NoPerson,
                                 FALSE))
  /\ last' = Did("initApp", "starting")
  /\ UNCHANGED <<appVars, initialized, events, cameraVars>>

\* The path arrives and database.init runs: on success initApp waits for
\* its promise, on failure the catch block logs the error and initApp ends.
initAppPath(i) ==
  /\ procs[i].kind = "initApp" /\ procs[i].pc = "path"
  /\ \E ok \in BOOLEAN :
       /\ initialized' = ok
       /\ IF DatabaseReady(ok)
          THEN /\ procs' = [procs EXCEPT ![i].pc = "database"]
               /\ started' = IF ok THEN started \cup {"database"} ELSE started
               /\ last' = Did("initApp", "database")
          ELSE /\ procs' = RemoveAt(procs, i)
               /\ last' = Did("initApp", "failed")
               /\ UNCHANGED started
  /\ UNCHANGED <<store, nextId, firstId, knownPeople, selectedPhotos,
                 faceDescriptors, editingPersonId, faceapi, modelsLoaded,
                 recognitionActive, display, currentSettings, exportFile, now,
                 removed, trip, picked, edited, events, cameraVars>>

\* uiModule.init, settingsModule.init, then peopleModule.init up to
\* loadSavedPeople's `await db.getAllPeople()`.
initAppDatabase(i) ==
  /\ procs[i].kind = "initApp" /\ procs[i].pc = "database"
  /\ started' = started \cup {"ui", "settings"}
  /\ procs' = [procs EXCEPT ![i].pc = "people"]
  /\ last' = Did("initApp", "loading")
  /\ UNCHANGED <<store, nextId, firstId, knownPeople, selectedPhotos,
                 faceDescriptors, editingPersonId, faceapi, modelsLoaded,
                 recognitionActive, display, currentSettings, exportFile, now,
                 removed, trip, picked, edited, events, initialized,
                 cameraVars>>

\* loadSavedPeople ends (a rejection leaves an empty list); people.init
\* registers its listeners, then cameraModule.init, recognitionModule.init
\* and appModule.init run.
initAppPeople(i) ==
  /\ procs[i].kind = "initApp" /\ procs[i].pc = "people"
  /\ \E ok \in BOOLEAN :
       knownPeople' = IF ok /\ ~NotInitialized THEN getAllPeople(store)
                      ELSE <<>>
  /\ started' = started \cup {"people", "camera", "recognition", "app"}
  /\ procs' = RemoveAt(procs, i)
  /\ last' = Did("initApp", "started")
  /\ UNCHANGED <<store, nextId, firstId, selectedPhotos, faceDescriptors,
                 editingPersonId, faceapi, modelsLoaded, recognitionActive,
                 display, currentSettings, exportFile, now, removed, trip,
                 picked, edited, events, initialized, cameraVars>>

\* The page as loaded, before DOMContentLoaded.
StartupInit ==
  /\ store \in PersistedStores
  /\ nextId = Cardinality(store) + 1
  /\ firstId = nextId
  /\ knownPeople = <<>>
  /\ selectedPhotos = <<>>
  /\ faceDescriptors = <<>>
  /\ editingPersonId = 0
  /\ faceapi = FALSE
  /\ modelsLoaded = FALSE
  /\ recognitionActive = FALSE
  /\ display = NoDisplay
  /\ currentSettings = [confidenceThreshold |-> 6]
  /\ exportFile = NoFile
  /\ procs = <<>>
  /\ now = 0
  /\ events = 0
  /\ removed = {}
  /\ trip = NoTrip
  /\ picked = <<>>
  /\ edited = NoEdit
  /\ started = {}
  /\ initialized = FALSE
  /\ isCameraActive = FALSE
  /\ isTestMode = FALSE
  /\ cameraStream = 0
  /\ tracks = <<>>
  /\ activeTab = "recognize"
  /\ last = Did("load", "ok")

\* Startup, then the camera controls once their listeners exist.
StartupNext ==
  \/ initApp
  \/ \E i \in DOMAIN procs : initAppPath(i)
  \/ \E i \in DOMAIN procs : initAppDatabase(i)
  \/ \E i \in DOMAIN procs : initAppPeople(i)
  \/ Connected("camera") /\ toggleCamera
  \/ Connected("ui") /\ Connected("camera") /\ tabChanged
  \/ \E i \in DOMAIN procs : startCameraEnumerated(i)
  \/ \E i \in DOMAIN procs : startCameraGranted(i)
  \/ \E i \in DOMAIN procs : testImageLoaded(i)

StartupSpec == StartupInit /\ [][StartupNext]_vars


\* ---------------------------------------------------------- specification
Next ==
  \/ selectPhotos
  \/ \E i \in DOMAIN procs : selectPhotosChosen(i)
  \/ \E i \in DOMAIN procs : selectPhotosProcessed(i)
  \/ savePerson
  \/ \E i \in DOMAIN procs : savePersonStored(i)
  \/ editPerson
  \/ deletePerson
  \/ \E i \in DOMAIN procs : deletePersonRemoved(i)
  \/ clearData
  \/ \E i \in DOMAIN procs : clearDataRemoved(i)
  \/ exportData
  \/ importData
  \/ \E i \in DOMAIN procs : importDataLoaded(i)
  \/ \E i \in DOMAIN procs : importDataRemoved(i)
  \/ \E i \in DOMAIN procs : importDataAdded(i)
  \/ \E i \in DOMAIN procs : importDataReloaded(i)
  \/ loadFaceApi
  \/ loadFaceRecognitionModels
  \/ recognizeFace
  \/ \E i \in DOMAIN procs : recognizeFaceBlob(i)
  \/ \E i \in DOMAIN procs : recognizeFaceImage(i)
  \/ \E i \in DOMAIN procs : recognizeFaceDetected(i)
  \/ \E i \in DOMAIN procs : updateLastRecognized(i)
  \/ setConfidenceThreshold
  \/ Tick

Spec == Init /\ [][Next]_vars

\* ------------------------------------------------- people.js: editing
\* A record as importData stores it from a backup entry that has no
\* faceDescriptor.
PersonUnfaced == [PersonB EXCEPT !.faceDescriptor = NoDescriptor]

\* The application started over a people.db that holds such a record next
\* to an enrolled one.
EditInit ==
  /\ store = {PersonA, PersonUnfaced}
  /\ nextId = Cardinality(store) + 1
  /\ firstId = nextId
  /\ knownPeople = getAllPeople(store)
  /\ selectedPhotos = <<>>
  /\ faceDescriptors = <<>>
  /\ editingPersonId = 0
  /\ faceapi \in BOOLEAN
  /\ modelsLoaded \in {FALSE, faceapi}
  /\ recognitionActive = FALSE
  /\ display = NoDisplay
  /\ currentSettings = [confidenceThreshold |-> 6]
  /\ exportFile = NoFile
  /\ procs = <<>>
  /\ now = 0
  /\ events = 0
  /\ removed = {}
  /\ trip = NoTrip
  /\ picked = <<>>
  /\ edited = NoEdit
  /\ started = Modules
  /\ initialized = TRUE
  /\ isCameraActive = FALSE
  /\ isTestMode = FALSE
  /\ cameraStream = 0
  /\ tracks = <<>>
  /\ activeTab = "recognize"
  /\ last = Did("init", "ok")

EditSpec == EditInit /\ [][Next]_vars

\* ------------------------------------------------------------- properties
\* A step that handles a click on the take-photo button.
RecognizeCall == events' = events + 1 /\ last'.op = "recognizeFace"

\* A step that handles a submit of the add-person form.
SaveCall == events' = events + 1 /\ last'.op = "savePerson"

\* C1: at most one recognition is in flight, and a recognizeFace call made
\* while one is in flight returns at once: it starts no second call, shows no
\* result and changes nothing.
SingleFlightRecognition ==
  /\ [](Cardinality(InFlight("recognize")) <= 1)
  /\ [][ (RecognizeCall /\ InFlight("recognize") # {})
           => (last'.res = "ignored" /\ UNCHANGED progVars) ]_vars

\* C1 witness: a call was ignored while another one was in flight.
IgnoredWhileInFlight ==
  /\ last = Did("recognizeFace", "ignored")
  /\ InFlight("recognize") # {}
  /\ faceapi /\ modelsLoaded

\* C2: whenever no recognizeFace call is in flight the flag is false, on each
\* way out of an accepted call (no face, empty gallery, match, no match,
\* exception), and the next request is then accepted.
FlagClearedOnEveryExit ==
  /\ [](InFlight("recognize") = {} => ~recognitionActive)
  /\ [][ (RecognizeCall /\ InFlight("recognize") = {} /\ faceapi /\ modelsLoaded)
           => (last'.res = "started" /\ recognitionActive') ]_vars

\* C2 witness: a call has left through the catch block and the flag is clear.
FlagClearAfterException ==
  /\ last.op = "recognizeFace" /\ last.res = "error"
  /\ InFlight("recognize") = {}
  /\ ~recognitionActive

\* C3: a person whose deletePerson returned true is not in knownPeople (the
\* source of every gallery) from then on, and no recognition that completes
\* afterwards reports that person.
DeletedPersonNeverMatched ==
  /\ removed \cap Ids(knownPeople) = {}
  /\ (last.op = "recognizeFace" /\ last.res = "match")
       => (display.person \in Ids(knownPeople) /\ display.person \notin removed)

\* C3 witness: a recognition has matched someone after a deletion.
MatchAfterDeletion ==
  /\ removed # {}
  /\ last.op = "recognizeFace" /\ last.res = "match"

\* C4: a savePerson call made while faceDescriptors is empty is rejected: it
\* does not reach the store, and neither the store nor knownPeople changes;
\* no pending save carries a missing descriptor.
SaveWithoutDescriptorRejected ==
  /\ [](\A i \in InFlight("save") : procs[i].doc.faceDescriptor # NoDescriptor)
  /\ [][ (SaveCall /\ faceDescriptors = <<>>)
           => /\ last'.res \in {"no-name", "no-face"}
              /\ UNCHANGED <<store, knownPeople, procs>> ]_vars

\* C4 witness: photos were selected, none held a face, and the save was
\* rejected for that reason.
RejectedForNoFace ==
  /\ last.op = "savePerson" /\ last.res = "no-face"
  /\ selectedPhotos # <<>>
  /\ faceDescriptors = <<>>

\* C5 as stated: the matcher reports the person at minimum distance when that
\* distance is less than or equal to the threshold, and no match otherwise.
MatchWithinThresholdInclusive ==
  (last.op = "recognizeFace" /\ last.res \in {"match", "no-match"}) =>
    LET D == { euclideanDistanceSq(last.arg, knownPeople[i].faceDescriptor) :
                 i \in DOMAIN knownPeople }
        min == CHOOSE d \in D : \A e \in D : d <= e
        t == currentSettings.confidenceThreshold
    IN IF min <= t * t
       THEN /\ last.res = "match"
            /\ \E i \in DOMAIN knownPeople :
                 /\ knownPeople[i].id = display.person
                 /\ euclideanDistanceSq(last.arg, knownPeople[i].faceDescriptor) = min
       ELSE last.res = "no-match" /\ display.shown = "not-recognized"

\* C5: the matcher reports the person at minimum distance when that distance
\* is strictly less than the threshold, and no match when it is equal to the
\* threshold or greater.
MatchStrictlyWithinThreshold ==
  (last.op = "recognizeFace" /\ last.res \in {"match", "no-match"}) =>
    LET D == { euclideanDistanceSq(last.arg, knownPeople[i].faceDescriptor) :
                 i \in DOMAIN knownPeople }
        min == CHOOSE d \in D : \A e \in D : d <= e
        t == currentSettings.confidenceThreshold
    IN IF min < t * t
       THEN /\ last.res = "match"
            /\ \E i \in DOMAIN knownPeople :
                 /\ knownPeople[i].id = display.person
                 /\ euclideanDistanceSq(last.arg, knownPeople[i].faceDescriptor) = min
       ELSE last.res = "no-match" /\ display.shown = "not-recognized"

\* C5 witness: the nearest person is exactly at the threshold and the
\* matcher has reported no match.
NoMatchAtThreshold ==
  /\ last.op = "recognizeFace" /\ last.res = "no-match"
  /\ LET D == { euclideanDistanceSq(last.arg, knownPeople[i].faceDescriptor) :
                  i \in DOMAIN knownPeople }
         t == currentSettings.confidenceThreshold
     IN t * t \in D /\ \A e \in D : t * t <= e

\* C6 as stated: once every operation has completed, each stored record has a
\* non-empty name and a non-empty faceDescriptor.
StoredRecordsComplete ==
  procs = <<>> =>
    \A r \in store : r.name # <<>> /\ r.faceDescriptor # NoDescriptor

\* C7 as stated: after an export and an import of that export, with no other
\* change of the store, the store holds as many records as were exported and
\* each is equal to an exported record in every field but the id.
ExportImportRoundTrip ==
  trip.phase = "done" =>
    /\ Cardinality(store) = Len(trip.before)
    /\ { [r EXCEPT !.id = 0] : r \in store }
         = { [trip.before[i] EXCEPT !.id = 0] : i \in DOMAIN trip.before }

\* C8: records leave the store only in the delete loops of deletePerson,
\* clearData and importData; an invocation gets to such a loop only in a step
\* in which every confirm() was answered yes; and a step in which a confirm()
\* was declined leaves the store and knownPeople as they were.
ConfirmationRequired ==
  [][ LET Removing(p) ==
            \/ p.kind \in {"delete", "clear"}
            \/ p.kind = "import" /\ p.pc \in {"delete", "add", "reload"}
          Count(ps) == Cardinality({ j \in DOMAIN ps : Removing(ps[j]) })
          Answered ==
            /\ last'.op \in {"deletePerson", "clearData", "importData"}
            /\ last'.res \in {"confirmed", "declined", "cleared"}
      IN /\ (Answered /\ \E k \in DOMAIN last'.arg : ~last'.arg[k])
              => /\ last'.res = "declined"
                 /\ UNCHANGED <<store, knownPeople>>
                 /\ Count(procs') = Count(procs)
         /\ Count(procs') > Count(procs)
              => /\ Answered /\ last'.res = "confirmed"
                 /\ \A k \in DOMAIN last'.arg : last'.arg[k]
         /\ (\E r \in store : \A q \in store' : q.id # r.id)
              => /\ \E i \in DOMAIN procs : Removing(procs[i])
                 /\ last'.op \in {"deletePerson", "clearData", "importData"}
                 /\ last'.res \in {"true", "deleting", "deleted"} ]_vars

\* C8 witness: clearData's first confirm() was accepted, the second one was
\* declined, and the people are still there.
ClearDeclinedAtSecondConfirm ==
  /\ last = DidWith("clearData", "declined", <<TRUE, FALSE>>)
  /\ store # {}
  /\ knownPeople # <<>>

\* C9: a savePerson call with a non-empty name and at least one valid face
\* descriptor, made while no person is being edited, sends one new record to
\* the store carrying the name, relationship and notes as entered and a
\* non-empty descriptor; when the store accepts it exactly one record is
\* added, and getPersonById finds it under its new id with those fields.
EnrollmentCreatesOneRecord ==
  [][ /\ (SaveCall /\ editingPersonId = 0 /\ faceDescriptors # <<>>
                   /\ Trim(last'.arg[1].name) # <<>>)
           => /\ last'.res = "adding"
              /\ LET p == procs'[Len(procs')]
                 IN
                   /\ procs' = Append(procs, p)
                   /\ p.kind = "save" /\ p.pc = "create"
                   /\ p.doc.name = last'.arg[1].name
                   /\ p.doc.relationship = last'.arg[1].relationship
                   /\ p.doc.notes = last'.arg[1].notes
                   /\ p.doc.faceDescriptor # NoDescriptor
      /\ (last'.op = "savePerson" /\ last'.res = "added")
           => \E i \in InFlight("save") :
                LET id == knownPeople'[Len(knownPeople')].id
                    r == getPersonById(store', id)
                IN /\ procs[i].pc = "create"
                   /\ r.id = id
                   /\ r \notin store
                   /\ \A q \in store : q.id # id
                   /\ store' = store \cup {r}
                   /\ Cardinality(store') = Cardinality(store) + 1
                   /\ r.name = procs[i].doc.name
                   /\ r.relationship = procs[i].doc.relationship
                   /\ r.notes = procs[i].doc.notes
                   /\ r.faceDescriptor = procs[i].doc.faceDescriptor
                   /\ r.faceDescriptor # NoDescriptor ]_vars

\* C9 witness: an enrollment has gone through and its record is in the store.
EnrollmentStored ==
  /\ last = Did("savePerson", "added")
  /\ \E r \in store : /\ r.id = nextId - 1
                      /\ r.name # <<>>
                      /\ r.notes # <<>>
                      /\ r.faceDescriptor # NoDescriptor

\* C10 as stated: when no face is detected the result shown is not-recognized
\* and carries a reason saying so.
NoFaceHasReason ==
  (last.op = "recognizeFace" /\ last.res = "no-face") =>
    (display.shown = "not-recognized" /\ display.message # "")

\* C11: a recognition that gets its detections while knownPeople is empty
\* ends as not-recognized for every probe: the matcher is not built, so there
\* is neither a match, a no-match nor a matcher error.
EmptyGalleryNotRecognized ==
  (/\ last.op = "recognizeFace"
   /\ last.res \in {"no-face", "no-people", "match", "no-match", "error"}
   /\ knownPeople = <<>>)
    => /\ display.shown = "not-recognized"
       /\ last.res \in {"no-face", "no-people", "error"}
       /\ last.res = "error" => last.arg[1] # "FaceMatcher"
       /\ last.res = "no-people" <=> (last.res # "error" /\ last.arg # NoDescriptor)

\* C11 witness: a frame with a face was taken while nobody was enrolled.
NoPeopleForProbe ==
  /\ last = DidWith("recognizeFace", "no-people", <<3, 4>>)
  /\ knownPeople = <<>>
  /\ display.shown = "not-recognized"

LastRecognizedFireAndForget ==
  [][ /\ (last'.op = "recognizeFace" /\ last'.res = "match")
           => /\ display'.shown = "recognized"
              /\ store' = store
              /\ \A j \in DOMAIN procs' : procs'[j].kind # "recognize"
              /\ \E j \in DOMAIN procs' : /\ procs'[j].kind = "touch"
                                          /\ procs'[j].id = display'.person
      /\ last'.op = "updateLastRecognized"
           => /\ UNCHANGED <<display, recognitionActive>>
              /\ last'.res \in {"ok", "failed"} ]_vars

\* C13 witness: the store update has failed and the person is still shown.
ShownThoughUpdateFailed ==
  /\ last = Did("updateLastRecognized", "failed")
  /\ display.shown = "recognized"

\* C14 as stated: a savePerson issued while selectPhotos is still processing
\* the selected images sends nothing to the store: no record is created or
\* updated from the selection processed so far.
SaveWaitsForProcessing ==
  [][ (SaveCall /\ \E i \in InFlight("select") : procs[i].pc = "photo")
        => /\ \A j \in DOMAIN procs' : procs'[j].kind = "save"
                                         => \E k \in DOMAIN procs : procs[k] = procs'[j]
           /\ UNCHANGED <<store, knownPeople>> ]_vars

\* C16 as stated: addPerson inserts nothing when the person's name is empty
\* or its faceDescriptor is missing, so every record an insert adds to the
\* store has both.
AddPersonValidates ==
  [][ \A r \in store' :
        (\A q \in store : q.id # r.id)
          => (r.name # <<>> /\ r.faceDescriptor # NoDescriptor) ]_vars

\* C17 as stated: savePerson's edit path reports success only for a person
\* that is in the store.
UpdateReportedOnlyForStoredPerson ==
  (last.op = "savePerson" /\ last.res = "updated")
    => \E r \in store : r.id = last.arg[1]

\* C19 as stated: a recognizeFace call made before the models have loaded
\* ends with a not-ready error instead of returning silently.
NotReadyReported ==
  [][ (RecognizeCall /\ ~modelsLoaded)
        => \/ last'.res = "rejected"
           \/ (display'.shown = "not-recognized" /\ display'.message # "") ]_vars

\* C20 as stated: the new person savePerson sends to the store has as images
\* all the paths the file dialog returned, in that order, and as
\* faceDescriptor the descriptor of the first of those paths in which a face
\* was detected.
FirstFaceAndAllImages ==
  (last.op = "savePerson" /\ last.res = "adding") =>
    LET doc == procs[Len(procs)].doc
        valid == { faceDescriptors[j].path : j \in DOMAIN faceDescriptors }
    IN /\ doc.images = picked
       /\ \E k \in DOMAIN picked :
            /\ picked[k] \in valid
            /\ \A j \in 1..(k - 1) : picked[j] \notin valid
            /\ doc.faceDescriptor = FaceOf[picked[k]]

\* C15 as stated: at most one stream granted by getUserMedia is live at any
\* time, and once stopCamera has run no granted stream is still live.
OneStreamHeld ==
  /\ Cardinality(LiveStreams) <= 1
  /\ last.res = "stopped" => LiveStreams = {}

\* A call of one of the seven operations of database.js.
StoreOps ==
  {"addPerson", "getAllPeople", "getPersonById", "updatePerson",
   "deletePerson", "updateLastRecognized", "addImageToPerson"}

\* C18: every store operation called while database.init has not completed
\* rejects with 'Database not initialized', returns nothing read from the
\* store and leaves the store as it was.
RejectedBeforeInit ==
  [][(events' = events + 1 /\ last'.op \in StoreOps /\ ~initialized) =>
       /\ last'.res = "Database not initialized"
       /\ last'.arg = <<>>
       /\ store' = store]_vars

\* An operation was rejected over a people.db that holds records, after an
\* attempt of database.init that threw.
RejectedOverStoredPeople ==
  /\ last.op \in StoreOps
  /\ last.res = "Database not initialized"
  /\ ~initialized
  /\ store # {}
  /\ events = 2

\* C21: an edit saved without photos having been selected leaves the
\* record's faceDescriptor and images as they were stored when the edit
\* began; of the stored fields only name, relationship and notes can differ.
EditKeepsPhotos ==
  [][(/\ last'.op = "savePerson" /\ last'.res = "updated"
      /\ edited.phase = "saving" /\ last'.arg[1] = edited.id) =>
       LET was == getPersonById(store, edited.id)
           r == getPersonById(store', edited.id)
       IN was # NoPerson =>
            /\ r.images = edited.images
            /\ r.faceDescriptor = edited.faceDescriptor
            /\ r.id = was.id
            /\ r.createdAt = was.createdAt
            /\ r.lastRecognized = was.lastRecognized]_vars

\* database.init has been attempted and has failed.
DatabaseInitFailed ==
  /\ ~initialized
  /\ last.op # "load"
  /\ \A i \in DOMAIN procs : procs[i].pc # "path"

\* C22: once database.init has failed at startup no module is initialized,
\* initApp is over, and nothing happens afterwards: no listener exists that
\* could run a handler.
StartupStopsOnDatabaseFailure ==
  /\ [](DatabaseInitFailed => (started = {} /\ procs = <<>>))
  /\ [][~DatabaseInitFailed]_vars

\* database.init failed over a people.db that holds records.
StartupFailed ==
  /\ last.op = "initApp" /\ last.res = "failed"
  /\ store # {}
  /\ DatabaseInitFailed

\* How far a recognizeFace call has got: Capturing (toBlob), Extracting
\* (bufferToImage, detectAllFaces); Matching and the result are the step
\* that ends it.
PcRank(pc) == CASE pc = "blob" -> 1 [] pc = "image" -> 2 [] pc = "detect" -> 3

\* C23: an accepted recognition request moves forward through its phases
\* with the loading indicator shown and the flag set, shows no result
\* before its last step, and in that step shows exactly one result,
\* recognized or not recognized, and clears the flag.
OneResultPerRequest ==
  [][\A i \in InFlight("recognize") :
       /\ display.shown = "loading"
       /\ recognitionActive
       /\ IF InFlight("recognize")' = {}
          THEN /\ last'.op = "recognizeFace"
               /\ PcRank(procs[i].pc) \in {2, 3}
               /\ display'.shown \in {"recognized", "not-recognized"}
               /\ ~recognitionActive'
          ELSE /\ display' = display
               /\ recognitionActive'
               /\ \A j \in InFlight("recognize")' :
                    PcRank(procs'[j].pc) \in
                      {PcRank(procs[i].pc), PcRank(procs[i].pc) + 1}]_vars

\* A request went through every phase and ended with the not-recognized
\* panel for a frame without a face.
RequestEndedWithOneResult ==
  /\ last.op = "recognizeFace" /\ last.res = "no-face"
  /\ display.shown = "not-recognized"
  /\ InFlight("recognize") = {}
  /\ ~recognitionActive

\* The identifiers of the stored records.
StoredIds(db) == { r.id : r \in db }

\* C24: each of the store operations that can race on one identifier acts on
\* the stored record as a whole step of its own that touches only its own
\* fields: updateLastRecognized sets lastRecognized and nothing else,
\* edit-save sets the form fields and leaves lastRecognized, deletePerson
\* removes the record, and neither update brings back a removed record; so
\* every interleaving is a serial order and both updates take effect.
RacingWritesCompose ==
  [][/\ (last'.op = "updateLastRecognized" /\ last'.res = "ok") =>
          \E i \in InFlight("touch") :
            /\ StoredIds(store') = StoredIds(store)
            /\ \A r \in store :
                 IF r.id = procs[i].id
                 THEN [r EXCEPT !.lastRecognized = DateAt(now)] \in store'
                 ELSE r \in store'
     /\ (last'.op = "savePerson" /\ last'.res = "updated") =>
          \E i \in InFlight("save") :
            /\ procs[i].id = last'.arg[1]
            /\ StoredIds(store') = StoredIds(store)
            /\ \A r \in store :
                 IF r.id = procs[i].id
                 THEN [r EXCEPT !.name = procs[i].doc.name,
                                !.relationship = procs[i].doc.relationship,
                                !.notes = procs[i].doc.notes,
                                !.images = procs[i].doc.images,
                                !.faceDescriptor = procs[i].doc.faceDescriptor]
                        \in store'
                 ELSE r \in store'
     /\ (last'.op = "deletePerson" /\ last'.res = "true") =>
          store' = { r \in store : r.id # last'.arg[1] }]_vars

\* The lastRecognized update of a match has taken effect while an edit-save
\* of the same person is still waiting for the store.
TouchedDuringEditSave ==
  /\ last.op = "updateLastRecognized" /\ last.res = "ok"
  /\ \E i \in InFlight("save") :
       /\ procs[i].pc = "edit"
       /\ \E r \in store : /\ r.id = procs[i].id
                           /\ r.lastRecognized # NoDate
                           /\ r.name # procs[i].doc.name

PeopleKinds == {"select", "save", "delete", "clear", "import", "touch"}

\* C26 as stated: whenever no operation of people.js is in flight, the
\* identifiers in knownPeople are the identifiers in the store.
KnownPeopleMirrorsStore ==
  (\A i \in DOMAIN procs : procs[i].kind \notin PeopleKinds) =>
    { knownPeople[k].id : k \in DOMAIN knownPeople } = StoredIds(store)

\* C27 as stated: a record that savePerson adds is not a second record for
\* a selection from which this run has already added one (same images and
\* faceDescriptor).
OneRecordPerSelection ==
  [][(last'.op = "savePerson" /\ last'.res = "added") =>
       LET new == knownPeople'[Len(knownPeople')]
       IN ~ \E r \in store : /\ r.id >= firstId
                             /\ r.images = new.images
                             /\ r.faceDescriptor = new.faceDescriptor]_vars

\* C28 as stated: when the only handler that has run is an importData that
\* ended in failure, every record the store held at the start (the
\* identifiers below firstId) is still stored.
ImportAllOrNothing ==
  (last.op = "importData" /\ last.res = "false" /\ events = 1) =>
    Cardinality({ r \in store : r.id < firstId }) = firstId - 1

\* C29 as stated: once every selectPhotos call has finished (no edit begun
\* and no record added since), selectedPhotos is the answer of the most
\* recent dialog and every entry of faceDescriptors is the descriptor of a
\* photo of that answer.
LatestSelectionOnly ==
  (/\ last.op = "selectPhotos"
   /\ InFlight("select") = {}
   /\ editingPersonId = 0
   /\ nextId = firstId) =>
    /\ selectedPhotos = picked
    /\ \A j \in DOMAIN faceDescriptors :
         \E k \in DOMAIN picked :
           /\ picked[k] = faceDescriptors[j].path
           /\ faceDescriptors[j].descriptor = FaceOf[picked[k]]

\* C30 as stated: on a tab other than 'recognize', once no startCamera call
\* is pending, the camera is not active and no stream is held.
CameraOnlyOnRecognizeTab ==
  (activeTab # "recognize" /\ InFlight("camera") = {}) =>
    (~isCameraActive /\ cameraStream = 0 /\ LiveStreams = {})

====
